---- MODULE Spec2Model ----
(***************************************************************************)
(* zaifcli (src/main.py): the credential pool, the classified retry loop   *)
(* and the spawn/join dispatch of main(), as one state machine.            *)
(*                                                                         *)
(* Scheduling is gevent's: a greenlet runs until it blocks (Queue.get on   *)
(* an empty queue, the network call fn(...), time.sleep, gevent.joinall),  *)
(* so one action is one run of a greenlet between two blocking points.     *)
(***************************************************************************)
EXTENDS Integers, Sequences, FiniteSets, TLC

\* ------------------------------------------------------------------ bounds
MaxCreds == 2        \* credential pairs in the credential file
MaxItems == 2        \* items a listing call returns
MaxSweep == 2        \* values a price sweep yields
MaxTry == 2          \* attempts one retry call makes (caps try_n)
MaxCount == 3        \* the count of a sweep expression
MaxPrice == 3        \* start, stop and |step| of a sweep expression
MaxIndex == 3        \* the numbers of a selection string
MaxTokens == 2       \* the comma-separated tokens of a selection string

\* --interval counts tenths of a second: its default 0.3 (line 116) is 3.
DefaultInterval == 3
Intervals == {1, DefaultInterval}

\* ------------------------------------------------------------- call names
\* Retry calls: 0 is the call main() makes itself first (the listing, or the
\* plain call), 1..MaxTasks are the greenlets in spawn order, RelistCall is
\* the listing main() makes after dispatch.
MaxTasks == IF MaxItems > MaxSweep THEN MaxItems ELSE MaxSweep
MainCall == 0
RelistCall == MaxTasks + 1
Tasks == 1..MaxTasks
Calls == 0..(MaxTasks + 1)

\* --------------------------------------------------------- the exceptions
\* str(e) of a ZaifApiError is modelled by the set of the substrings the
\* handler looks for that it contains.
Markers ==
    {"time wait restriction", "inventory is out of order", "insufficient funds",
     "Insufficient margin", "order not found", "order already closed",
     "already ordered", "max position count is", "position still remaining"}

\* The messages the exchange answers with: none of the substrings ("trade
\* temporarily unavailable."), each one alone, and two that contain two.
Messages ==
    {{}} \cup {{m} : m \in Markers}
         \cup {{"time wait restriction", "insufficient funds"},
               {"inventory is out of order", "order not found"}}

NoExc == [type |-> "None", s |-> {}]
ZaifApiError(s) == [type |-> "ZaifApiError", s |-> s]
ProxyError == [type |-> "ProxyError", s |-> {}]
ConnectionError == [type |-> "ConnectionError", s |-> {}]
OtherError == [type |-> "Exception", s |-> {}]

\* What fn(...) can raise: an application error, requests' ProxyError, its
\* base class ConnectionError (a connectivity failure that is no proxy
\* failure), anything else.
Exceptions ==
    {ZaifApiError(s) : s \in Messages} \cup {ProxyError, ConnectionError, OtherError}

VARIABLES
    credentials,             \* CredentialPool.credentials, as loaded
    credential_n,            \* --credential-n
    q,                       \* CredentialPool.q
    faults,                  \* what fn(...) raises in this run
    interval,                \* --interval
    serial,                  \* --serial
    retry_out_of_inventory,  \* --retry_out_of_inventory
    METHOD,                  \* args['METHOD'] (NoMethod: list or board)
    params_price,            \* gen_float(params.get('price', [])), line 275
    cancel_indexes,          \* parse_indexes(--cancel)
    update_indexes,          \* parse_indexes(--update)
    argv,                    \* args['--price'], ['--limit'], ['--stop']
    res,                     \* what the listing call answers with
    price_gen,               \* the generators, as what they have yet to yield
    limit_gen,
    stop_gen,
    items,                   \* len(items) of the first listing
    mpc,                     \* where main() is
    i,                       \* the loop index of the dispatch loop
    g_list,                  \* the greenlets of the current wave
    nspawned,                \* greenlets spawned so far
    method,                  \* per call: what it calls
    target,                  \* per call: the position of the item it acts on
    kwargs,                  \* per call: its id and price keyword arguments
    pulled,                  \* per call: what next() gave for it, lines 246-248
    rpc,                     \* per call: where retry() is
    cred,                    \* per call: the credential it holds (0: none)
    try_n,                   \* per call: try_n (0 outside the while loop)
    exc,                     \* per call: the exception of its current attempt
    seconds,                 \* per call: seconds (0 outside the while loop)
    nget,                    \* per call: q.get() calls that returned
    nput,                    \* per call: q.put() calls
    expression,              \* gen_float alone: its argument
    yielded,                 \* gen_float alone: the values next() returned
    selection,               \* parse_indexes alone: its argument, as tokens
    indexes,                 \* parse_indexes alone: the list it returned
    fpc                      \* gen_float / parse_indexes alone: where it is

pool == <<credentials, credential_n, q, faults>>
args == <<interval, serial, retry_out_of_inventory, METHOD, params_price,
          cancel_indexes, update_indexes, argv, res>>
purev == <<expression, yielded, selection, indexes, fpc>>
gens == <<price_gen, limit_gen, stop_gen>>
mainv == <<items, mpc, i, g_list, nspawned>>
callv == <<method, target, kwargs, pulled, rpc, cred, try_n, exc, seconds, nget, nput>>
vars == <<pool, args, gens, mainv, callv, purev>>

\* --------------------------------------------------------------- gen_float
\* A generator object: none = TRUE is the `while True: yield None` of an
\* absent expression; otherwise vals are the values it has yet to yield.
GenNone == [none |-> TRUE, vals |-> <<>>]
GenOf(vals) == [none |-> FALSE, vals |-> vals]
Exhausted(g) == ~g.none /\ g.vals = <<>>
Advance(g) == IF g.none THEN g ELSE GenOf(Tail(g.vals))

\* The value sequences of the sweeps of the model: start, start + step, ...
SweepVals(n) == [k \in 1..n |-> 100 + 2 * (k - 1)]

\* A sweep expression as gen_float splits it (lines 30-42): absent (falsy),
\* a body with no ':' (bare), or start:stop:step; stop may be empty (inf),
\* the `,count` may be missing (n stays sys.maxsize: NoCount, no bound).
NoCount == -1
NoExpr == [kind |-> "absent", start |-> 0, stop |-> 0, inf |-> TRUE, step |-> 0, n |-> NoCount]
Bare(x, n) == [kind |-> "bare", start |-> x, stop |-> 0, inf |-> TRUE, step |-> 0, n |-> n]
Sweep(a, b, s, n) == [kind |-> "range", start |-> a, stop |-> b, inf |-> FALSE, step |-> s, n |-> n]
SweepInf(a, s, n) == [kind |-> "range", start |-> a, stop |-> 0, inf |-> TRUE, step |-> s, n |-> n]

\* Lines 33-42: stop and step after the split.
StopInf(e) == e.kind = "bare" \/ e.inf
Step(e) == IF e.kind = "bare" THEN 0 ELSE e.step

\* Seeded fault of Count: the `n = 1` of line 42 missing.
Count_Given(e) == e.n

\* Lines 29-32, 42: n, the bound of the for loop.
Count(e) == IF e.kind = "bare" THEN 1 ELSE e.n

\* Lines 43-45: asc, false only when start > stop.
Asc(e) == StopInf(e) \/ ~(e.start > e.stop)

\* Seeded fault of Breaks: `<` for `<=` in both tests.
Breaks_Strict(e, price) ==
    IF Asc(e) THEN ~StopInf(e) /\ e.stop < price ELSE price < e.stop

\* Lines 48-51: the two `break` tests on price.
Breaks(e, price) ==
    IF Asc(e) THEN ~StopInf(e) /\ e.stop <= price ELSE price <= e.stop

\* Lines 46-52: the values the for loop yields from round i on. A loop with
\* no count and no break is followed for MaxCount + 1 rounds.
RECURSIVE Yield(_, _)
Yield(e, k) ==
    IF \/ Count(e) # NoCount /\ k >= Count(e)
       \/ Count(e) = NoCount /\ k > MaxCount
       \/ Breaks(e, e.start + Step(e) * k)
    THEN <<>>
    ELSE <<e.start + Step(e) * k>> \o Yield(e, k + 1)

\* gen_float(expression): the generator object.
gen_float(e) == IF e.kind = "absent" THEN GenNone ELSE GenOf(Yield(e, 0))

\* next(g): None of an absent expression, or the value of the next yield.
\* A value that may be None is a sequence of no or one number.
None == <<>>
Some(v) == <<v>>

\* Seeded fault of Pull: the generator yields from its end.
Pull_Last(g) == IF g.none THEN None ELSE Some(g.vals[Len(g.vals)])

Pull(g) == IF g.none THEN None ELSE Some(Head(g.vals))

\* `price and ...` (lines 261-263): None and 0 are falsy.
Truthy(o) == o # None /\ o[1] # 0

\* ---------------------------------------------------------- round_price
\* Prices are counted in units of 0.00001. int() cuts towards zero.
Trunc(v, u) == IF v >= 0 THEN (v \div u) * u ELSE 0 - (((0 - v) \div u) * u)

\* Lines 67-71: whole numbers for btc_jpy, four decimals for the others.
round_price(currency_pair, price) ==
    IF currency_pair = "btc_jpy" THEN Trunc(price, 100000) ELSE Trunc(price, 10)

\* ---------------------------------------------------------- print_items
\* An item of the listing, under its id.
Position(id, currency_pair, amount, amount_done) ==
    [id |-> id, currency_pair |-> currency_pair, amount |-> amount,
     amount_done |-> amount_done]

\* str(id), for ids below 100, as its digits.
Str(n) == IF n < 10 THEN <<n>> ELSE <<n \div 10, n % 10>>

\* s < t of two strings of digits.
StrLess(s, t) ==
    \/ s[1] < t[1]
    \/ s[1] = t[1] /\ Len(s) = 1 /\ Len(t) = 2
    \/ s[1] = t[1] /\ Len(s) = 2 /\ Len(t) = 2 /\ s[2] < t[2]

\* Lines 311-314: the items in the order of sorted(res), the keys of res
\* being strings.
print_items(r) ==
    [k \in 1..Cardinality(r) |->
        CHOOSE x \in r :
            Cardinality({y \in r : StrLess(Str(y.id), Str(x.id))}) = k - 1]

\* x, the item at position k of the first listing.
Item(k) == print_items(res)[k]

\* The keyword arguments of a call: leverage_id or order_id, price, limit,
\* stop, each there or not.
NoKwargs == [id |-> None, price |-> None, limit |-> None, stop |-> None]
NoPull == [price |-> None, limit |-> None, stop |-> None]

\* Seeded fault of UpdateParams: lines 259-260 missing.
UpdateParams_KeepsPrice(x, got) ==
    [id |-> Some(x.id),
     price |-> IF Truthy(got.price) THEN Some(round_price(x.currency_pair, got.price[1])) ELSE None,
     limit |-> IF Truthy(got.limit) THEN Some(round_price(x.currency_pair, got.limit[1])) ELSE None,
     stop |-> IF Truthy(got.stop) THEN Some(round_price(x.currency_pair, got.stop[1])) ELSE None]

\* Lines 253-263: update_params of item x, got being price, limit and stop
\* as pulled.
UpdateParams(x, got) ==
    LET price == IF x.amount_done = x.amount THEN None ELSE got.price
    IN  [id |-> Some(x.id),
         price |-> IF Truthy(price) THEN Some(round_price(x.currency_pair, price[1])) ELSE None,
         limit |-> IF Truthy(got.limit) THEN Some(round_price(x.currency_pair, got.limit[1])) ELSE None,
         stop |-> IF Truthy(got.stop) THEN Some(round_price(x.currency_pair, got.stop[1])) ELSE None]

\* ------------------------------------------------------- parse_indexes
\* A token of the selection string: `k`, or `lo-hi` (line 58: it has a '-').
Single(k) == [dash |-> FALSE, lo |-> k, hi |-> k]
Dash(lo, hi) == [dash |-> TRUE, lo |-> lo, hi |-> hi]

\* Seeded fault of Expand: range(start, end), the end left out.
Expand_Exclusive(tok) ==
    IF tok.dash THEN [j \in 1..(tok.hi - tok.lo) |-> tok.lo + j - 1] ELSE <<tok.lo>>

\* Lines 58-63: what one token appends to indexes.
Expand(tok) ==
    IF tok.dash THEN [j \in 1..(tok.hi - tok.lo + 1) |-> tok.lo + j - 1] ELSE <<tok.lo>>

\* Lines 55-64: the list parse_indexes returns.
RECURSIVE parse_indexes(_)
parse_indexes(toks) ==
    IF toks = <<>> THEN <<>> ELSE Expand(Head(toks)) \o parse_indexes(Tail(toks))


\* ------------------------------------------------------------ method names
\* The names are those of the leverage client; the spot client differs in
\* the names only (active_orders, cancel_order, no update method).
NoMethod == "-"
get_method == "active_positions"
cancel_method == "cancel_position"
update_method == "change_position"
Methods == {NoMethod, get_method, "create_position", "no_such_method"}

\* getattr(api(*credential), method_name) finds the method.
HasMethod(m) == m \in {get_method, cancel_method, update_method, "create_position"}

\* The branch main() takes: `list`/`board` return at once, METHOD = get_method
\* is the index-selection dispatch, a params price is the raw price sweep,
\* anything else is one plain call.
Branch ==
    IF METHOD = NoMethod THEN "list"
    ELSE IF METHOD = get_method THEN "select"
    ELSE IF params_price # GenNone THEN "sweep"
    ELSE "single"

\* Seeded fault of Choice: the two tests of lines 236 and 244 swapped.
Choice_UpdateFirst(k) ==
    IF k \in update_indexes THEN "update"
    ELSE IF k \in cancel_indexes THEN "cancel"
    ELSE "none"

\* Lines 236, 244: `if i in cancel_indexes: ... elif i in update_indexes:`.
Choice(k) ==
    IF k \in cancel_indexes THEN "cancel"
    ELSE IF k \in update_indexes THEN "update"
    ELSE "none"

\* -------------------------------------------------------------- the handler
FatalMarkers ==
    {"insufficient funds", "Insufficient margin", "order not found",
     "order already closed", "already ordered", "max position count is",
     "position still remaining"}

\* The if/elif chain over str(e), in its order.
Classify(s) ==
    IF "time wait restriction" \in s THEN "rate"
    ELSE IF "inventory is out of order" \in s THEN "inventory"
    ELSE IF s \cap FatalMarkers # {} THEN "fatal"
    ELSE "other"

\* Seeded faults of Raises: the `insufficient funds` clause missing (the
\* message falls to the final else); the inventory clause blind to the flag;
\* the `except ProxyError` clause missing.
Raises_FundsRetried(e, flag) ==
    IF e.type = "ZaifApiError"
    THEN \/ Classify(e.s \ {"insufficient funds"}) = "fatal"
         \/ Classify(e.s) = "inventory" /\ ~flag
    ELSE e.type # "ProxyError"

Raises_FlagIgnored(e, flag) ==
    IF e.type = "ZaifApiError"
    THEN Classify(e.s) = "fatal"
    ELSE e.type # "ProxyError"

Raises_ProxyUncaught(e, flag) ==
    IF e.type = "ZaifApiError"
    THEN \/ Classify(e.s) = "fatal"
         \/ Classify(e.s) = "inventory" /\ ~flag
    ELSE TRUE

\* Does exception e of an attempt leave the while loop (a `raise`, or no
\* except clause that catches it)?
Raises(e, flag) ==
    IF e.type = "ZaifApiError"
    THEN \/ Classify(e.s) = "fatal"
         \/ Classify(e.s) = "inventory" /\ ~flag
    ELSE e.type # "ProxyError"

\* Seeded fault of Seconds: the `seconds = interval * 10` of the rate
\* clause missing.
Seconds_RateShort(e, flag, ival) ==
    IF e.type = "ZaifApiError" /\ Classify(e.s) = "inventory" /\ flag THEN ival * 10
    ELSE ival

\* The argument of time.sleep after exception e was caught.
Seconds(e, flag, ival) ==
    IF e.type = "ZaifApiError" /\ Classify(e.s) = "rate" THEN ival * 10
    ELSE IF e.type = "ZaifApiError" /\ Classify(e.s) = "inventory" /\ flag THEN ival * 10
    ELSE ival

\* ------------------------------------------------------------------- inputs
Min(a, b) == IF a < b THEN a ELSE b
IndexSets == SUBSET (1..MaxItems)
\* --price / --limit / --stop: absent, or a sweep of 0..MaxItems values.
ArgGens == {GenNone} \cup {GenOf(SweepVals(n)) : n \in 0..MaxItems}
\* params price: absent, or a sweep of 0..MaxSweep values.
ParamGens == {GenNone} \cup {GenOf(SweepVals(n)) : n \in 0..MaxSweep}

\* --price, --limit, --stop: absent, or 100::2,n.
ArgExprs == {NoExpr} \cup {SweepInf(100, 2, n) : n \in 0..MaxSweep}

\* The listings of n open btc_jpy positions, ids 9, 10, ..., none filled.
Plain(n) == {Position(8 + k, "btc_jpy", 2, 0) : k \in 1..n}

\* What the exchange answers with in the runs with several calls: one fatal
\* message, the inventory message, a proxy failure, a connectivity failure.
FewExceptions ==
    {ZaifApiError({"insufficient funds"}), ZaifApiError({"inventory is out of order"}),
     ProxyError, ConnectionError}

\* The state when main() has built the pool (line 129) and read its
\* arguments (lines 127-131, 179-230): the first n pairs of the file are in
\* the queue, no retry call has begun.
Built ==
    /\ credentials \in {[k \in 1..L |-> k] : L \in 0..MaxCreds}
    /\ credential_n \in {0, MaxCreds}
    /\ q = [k \in 1..Min(Len(credentials), credential_n) |-> credentials[k]]
    /\ interval \in Intervals
    /\ serial \in BOOLEAN
    /\ retry_out_of_inventory \in BOOLEAN
    /\ METHOD \in Methods
    /\ params_price \in ParamGens
    /\ METHOD \in {NoMethod, get_method} => params_price = GenNone
    /\ cancel_indexes \in IF METHOD = get_method THEN IndexSets ELSE {{}}
    /\ update_indexes \in IF METHOD = get_method THEN IndexSets ELSE {{}}
    /\ argv \in IF METHOD = get_method
                THEN [price : ArgExprs, limit : ArgExprs, stop : ArgExprs]
                ELSE {[price |-> NoExpr, limit |-> NoExpr, stop |-> NoExpr]}
    /\ price_gen = gen_float(argv.price) /\ price_gen \in ArgGens
    /\ limit_gen = gen_float(argv.limit) /\ limit_gen \in ArgGens
    /\ stop_gen = gen_float(argv.stop) /\ stop_gen \in ArgGens
    /\ res \in IF METHOD = get_method THEN {Plain(n) : n \in 0..MaxItems} ELSE {{}}
    /\ items = 0
    /\ mpc = "start"
    /\ i = 0
    /\ g_list = {}
    /\ nspawned = 0
    /\ method = [c \in Calls |-> NoMethod]
    /\ target = [c \in Calls |-> 0]
    /\ kwargs = [c \in Calls |-> NoKwargs]
    /\ pulled = [c \in Calls |-> NoPull]
    /\ rpc = [c \in Calls |-> "idle"]
    /\ cred = [c \in Calls |-> 0]
    /\ try_n = [c \in Calls |-> 0]
    /\ exc = [c \in Calls |-> NoExc]
    /\ seconds = [c \in Calls |-> 0]
    /\ nget = [c \in Calls |-> 0]
    /\ nput = [c \in Calls |-> 0]
    /\ expression = NoExpr
    /\ yielded = <<>>
    /\ selection = <<>>
    /\ indexes = <<>>
    /\ fpc = "-"

\* The runs of the retry loop and the pool: one plain call against every
\* answer of the exchange; price sweeps of up to MaxSweep greenlets; and
\* index selections that cancel the first item and update the second, with
\* no sweep expression or with an exhausted one.
Init ==
    /\ cancel_indexes \in SUBSET {1}
    /\ update_indexes \in SUBSET {2}
    /\ argv \in {[price |-> e, limit |-> e, stop |-> e] :
                   e \in IF update_indexes = {}
                          THEN {NoExpr} ELSE {NoExpr, SweepInf(100, 2, 0)}}
    /\ Built
    /\ faults = IF Branch = "single" THEN Exceptions ELSE FewExceptions

\* The runs of the dispatcher: every selection and every --price sweep, under
\* the default interval and a pool of none, one or all of the credentials,
\* against an exchange that answers, fails fatally or fails with a proxy
\* failure.
InitDispatch ==
    /\ faults = {ZaifApiError({"insufficient funds"}), ProxyError}
    /\ retry_out_of_inventory = FALSE
    /\ interval = DefaultInterval
    /\ credential_n = MaxCreds
    /\ credentials \in {[k \in 1..L |-> k] : L \in {0, 1, MaxCreds}}
    /\ update_indexes \in IndexSets
    /\ argv \in {[price |-> e, limit |-> NoExpr, stop |-> NoExpr] :
                   e \in IF update_indexes = {} THEN {NoExpr} ELSE ArgExprs}
    /\ Built

\* The runs of the selection: listings of up to MaxItems positions, ids 9,
\* 10, ... (so that sorted() does not keep their numeric order), btc_jpy and
\* xem_jpy by turns, each open or fully filled;
SelectBooks ==
    UNION {{{Position(8 + k, IF k % 2 = 0 THEN "btc_jpy" ELSE "xem_jpy", 2, done[k])
               : k \in 1..n} : done \in [1..n -> {0, 2}]} : n \in 0..MaxItems}

\* --price absent, one number, 0 then a number, or a sweep longer than the
\* listing; --limit and --stop absent, one number, or 0 and up without end;
\* in the combinations in which each sweep is the first to run out, runs
\* out after another has yielded, or never runs out.
SelectPrices ==
    {NoExpr, Bare(150007, NoCount), SweepInf(0, 150007, 2),
     Sweep(150007, 950007, 100000, NoCount)}
SelectLimits == {NoExpr, Bare(250003, NoCount), SweepInf(0, 250003, NoCount)}
SelectStops == {NoExpr, Bare(350009, NoCount), SweepInf(0, 350009, NoCount)}
SelectSweeps ==
    {a \in [price : SelectPrices, limit : SelectLimits, stop : SelectStops] :
        \/ a.limit = NoExpr /\ a.stop = NoExpr
        \/ a.price = NoExpr /\ (a.limit = NoExpr \/ a.stop = NoExpr)
             /\ a.limit.kind # "bare" /\ a.stop.kind # "bare"
        \/ a.price.kind = "range" /\ a.price.inf
             /\ a.limit.kind = "bare" /\ a.stop.kind = "range"
        \/ a.price.kind = "range" /\ ~a.price.inf /\ a.limit.kind = "bare" /\ a.stop = NoExpr
        \/ a.price.kind = "range" /\ ~a.price.inf /\ a.limit.kind = "range"}

\* every selection; one credential and an exchange that answers. The other
\* branches of main() run with no or one credential against an exchange that
\* fails fatally or with a proxy failure.
InitSelect ==
    /\ credentials \in {<<>>, <<1>>}
    /\ credential_n = MaxCreds
    /\ q = credentials
    /\ interval = DefaultInterval
    /\ serial \in BOOLEAN
    /\ retry_out_of_inventory = FALSE
    /\ METHOD \in Methods
    /\ METHOD = get_method => credentials # <<>>
    /\ faults = IF METHOD = get_method
                THEN {} ELSE {ZaifApiError({"insufficient funds"}), ProxyError}
    /\ params_price \in IF METHOD \in {NoMethod, get_method} THEN {GenNone} ELSE ParamGens
    /\ cancel_indexes \in IF METHOD = get_method THEN IndexSets ELSE {{}}
    /\ update_indexes \in IF METHOD = get_method THEN IndexSets ELSE {{}}
    /\ argv \in IF METHOD = get_method
                THEN SelectSweeps
                ELSE {[price |-> NoExpr, limit |-> NoExpr, stop |-> NoExpr]}
    /\ price_gen = gen_float(argv.price)
    /\ limit_gen = gen_float(argv.limit)
    /\ stop_gen = gen_float(argv.stop)
    /\ res \in IF METHOD = get_method THEN SelectBooks ELSE {{}}
    /\ items = 0 /\ mpc = "start" /\ i = 0 /\ g_list = {} /\ nspawned = 0
    /\ method = [c \in Calls |-> NoMethod]
    /\ target = [c \in Calls |-> 0]
    /\ kwargs = [c \in Calls |-> NoKwargs]
    /\ pulled = [c \in Calls |-> NoPull]
    /\ rpc = [c \in Calls |-> "idle"]
    /\ cred = [c \in Calls |-> 0]
    /\ try_n = [c \in Calls |-> 0]
    /\ exc = [c \in Calls |-> NoExc]
    /\ seconds = [c \in Calls |-> 0]
    /\ nget = [c \in Calls |-> 0]
    /\ nput = [c \in Calls |-> 0]
    /\ expression = NoExpr /\ yielded = <<>>
    /\ selection = <<>> /\ indexes = <<>>
    /\ fpc = "-"

\* ------------------------------------------- gen_float, parse_indexes alone
\* main() not begun: nothing of the pool, the arguments or the calls is in use.
Unstarted ==
    /\ credentials = <<>> /\ credential_n = 0 /\ q = <<>> /\ faults = {}
    /\ interval = DefaultInterval /\ serial = FALSE /\ retry_out_of_inventory = FALSE
    /\ METHOD = NoMethod /\ params_price = GenNone
    /\ cancel_indexes = {} /\ update_indexes = {}
    /\ argv = [price |-> NoExpr, limit |-> NoExpr, stop |-> NoExpr] /\ res = {}
    /\ limit_gen = GenNone /\ stop_gen = GenNone
    /\ items = 0 /\ mpc = "start" /\ i = 0 /\ g_list = {} /\ nspawned = 0
    /\ method = [c \in Calls |-> NoMethod]
    /\ target = [c \in Calls |-> 0]
    /\ kwargs = [c \in Calls |-> NoKwargs]
    /\ pulled = [c \in Calls |-> NoPull]
    /\ rpc = [c \in Calls |-> "idle"]
    /\ cred = [c \in Calls |-> 0]
    /\ try_n = [c \in Calls |-> 0]
    /\ exc = [c \in Calls |-> NoExc]
    /\ seconds = [c \in Calls |-> 0]
    /\ nget = [c \in Calls |-> 0]
    /\ nput = [c \in Calls |-> 0]

\* The sweep expressions gen_float is given: bodies with no ':' with and
\* without a count, and start:stop:step with stop given or empty, with and
\* without a count, ascending, descending, level, and stepping away from stop.
Counts == 0..MaxCount \cup {NoCount}
Prices == 0..MaxPrice
Steps == (0 - MaxPrice)..MaxPrice
Expressions ==
    {Bare(x, n) : x \in Prices, n \in Counts}
    \cup {SweepInf(a, s, n) : a \in Prices, s \in Steps, n \in Counts}
    \cup UNION {{Sweep(a, b, s, n) : a \in Prices, b \in Prices} : s \in Steps, n \in Counts}

InitGen ==
    /\ Unstarted
    /\ expression \in Expressions
    /\ price_gen = GenNone
    /\ yielded = <<>>
    /\ selection = <<>> /\ indexes = <<>>
    /\ fpc = "gen_float"

\* gen_float(expression): the generator is made, nothing of it has run.
GenCall ==
    /\ fpc = "gen_float"
    /\ price_gen' = gen_float(expression)
    /\ fpc' = "next"
    /\ UNCHANGED <<pool, args, limit_gen, stop_gen, mainv, callv,
                   expression, yielded, selection, indexes>>

\* next(generator) returns the value of one `yield` (line 52).
GenNext ==
    /\ fpc = "next"
    /\ ~price_gen.none /\ ~Exhausted(price_gen)
    /\ yielded' = Append(yielded, Head(price_gen.vals))
    /\ price_gen' = Advance(price_gen)
    /\ UNCHANGED <<pool, args, limit_gen, stop_gen, mainv, callv,
                   expression, selection, indexes, fpc>>

\* next(generator) when the for loop has ended: StopIteration.
GenStop ==
    /\ fpc = "next"
    /\ Exhausted(price_gen)
    /\ fpc' = "StopIteration"
    /\ UNCHANGED <<pool, args, gens, mainv, callv,
                   expression, yielded, selection, indexes>>

NextGen == GenCall \/ GenNext \/ GenStop

SpecGen == InitGen /\ [][NextGen]_vars

\* The selection strings parse_indexes is given: 1..MaxTokens tokens, each a
\* number or lo-hi, with lo above hi too.
Tokens ==
    {Single(k) : k \in 0..MaxIndex}
    \cup {Dash(lo, hi) : lo \in 0..MaxIndex, hi \in 0..MaxIndex}
Selections == UNION {[1..n -> Tokens] : n \in 1..MaxTokens}

InitIdx ==
    /\ Unstarted
    /\ price_gen = GenNone
    /\ expression = NoExpr /\ yielded = <<>>
    /\ selection \in Selections
    /\ indexes = <<>>
    /\ fpc = "parse_indexes"

\* parse_indexes(s) runs to its return.
ParseIndexes ==
    /\ fpc = "parse_indexes"
    /\ indexes' = parse_indexes(selection)
    /\ fpc' = "returned"
    /\ UNCHANGED <<pool, args, gens, mainv, callv, expression, yielded, selection>>

NextIdx == ParseIndexes

SpecIdx == InitIdx /\ [][NextIdx]_vars

\* ---------------------------------------------------------------- retry()
Holding(c) == cred[c] # 0
Terminated(c) == rpc[c] \in {"returned", "raised"}

\* A greenlet runs only while main() is blocked in gevent.joinall; the calls
\* main() makes itself run inside main().
Runnable(c) == c \in Tasks => mpc \in {"joinwave", "joinall"}

\* Seeded fault of Enter: the credential is read off the queue and left in it.
Enter_NoPop(c) ==
    /\ q # <<>>
    /\ nget' = [nget EXCEPT ![c] = @ + 1]
    /\ q' = q
    /\ cred' = [cred EXCEPT ![c] = Head(q)]
    /\ rpc' = [rpc EXCEPT ![c] = "attempt"]
    /\ try_n' = [try_n EXCEPT ![c] = 1]
    /\ seconds' = [seconds EXCEPT ![c] = interval]
    /\ UNCHANGED <<exc, nput>>
    /\ UNCHANGED <<credentials, credential_n, faults, args, purev, gens, mainv, method, target, kwargs, pulled>>

\* get_credential() got a credential (line 96) and retry() goes on to line
\* 136: with the method bound, to the first fn(...) (try_n = 1); with no
\* such method, the AttributeError leaves the `with` and the credential is
\* put back (lines 98-100).
Enter(c) ==
    /\ q # <<>>
    /\ nget' = [nget EXCEPT ![c] = @ + 1]
    /\ IF HasMethod(method[c])
       THEN /\ q' = Tail(q)
            /\ cred' = [cred EXCEPT ![c] = Head(q)]
            /\ rpc' = [rpc EXCEPT ![c] = "attempt"]
            /\ try_n' = [try_n EXCEPT ![c] = 1]
            /\ seconds' = [seconds EXCEPT ![c] = interval]
            /\ UNCHANGED <<exc, nput>>
       ELSE /\ q' = Append(Tail(q), Head(q))
            /\ rpc' = [rpc EXCEPT ![c] = "raised"]
            /\ exc' = [exc EXCEPT ![c] = OtherError]
            /\ nput' = [nput EXCEPT ![c] = @ + 1]
            /\ UNCHANGED <<cred, try_n, seconds>>
    /\ UNCHANGED <<credentials, credential_n, faults, args, purev, gens, mainv, method, target, kwargs, pulled>>

\* retry() begins: q.get() returns at once, or blocks on the empty queue.
Start(c) ==
    /\ rpc[c] = "spawned"
    /\ Runnable(c)
    /\ IF q = <<>>
       THEN /\ rpc' = [rpc EXCEPT ![c] = "acquire"]
            /\ UNCHANGED <<pool, args, purev, gens, mainv, method, target, kwargs, pulled, cred, try_n,
                           exc, seconds, nget, nput>>
       ELSE Enter(c)

\* A blocked q.get() returns.
Acquire(c) ==
    /\ rpc[c] = "acquire"
    /\ Runnable(c)
    /\ Enter(c)

\* Seeded faults of Release: no put at all; the credential put twice.
Release_Leak(c) ==
    /\ q' = q
    /\ cred' = [cred EXCEPT ![c] = 0]
    /\ nput' = nput

Release_Twice(c) ==
    /\ q' = Append(Append(q, cred[c]), cred[c])
    /\ cred' = [cred EXCEPT ![c] = 0]
    /\ nput' = [nput EXCEPT ![c] = @ + 1]

\* The `finally` of get_credential(): `if credential: self.q.put(credential)`.
\* A (key, secret) pair is never falsy.
Release(c) ==
    /\ q' = Append(q, cred[c])
    /\ cred' = [cred EXCEPT ![c] = 0]
    /\ nput' = [nput EXCEPT ![c] = @ + 1]

\* retry() is left: its locals try_n and seconds are gone.
Leave(c) ==
    /\ try_n' = [try_n EXCEPT ![c] = 0]
    /\ seconds' = [seconds EXCEPT ![c] = 0]

\* fn(...) returns: line 145.
AttemptReturns(c) ==
    /\ rpc[c] = "attempt"
    /\ Runnable(c)
    /\ Release(c)
    /\ Leave(c)
    /\ rpc' = [rpc EXCEPT ![c] = "returned"]
    /\ UNCHANGED <<credentials, credential_n, faults, args, purev, gens, mainv, method, target, kwargs, pulled,
                   exc, nget>>

\* fn(...) raises e and e leaves retry(): a `raise` of the handler, or an
\* exception no clause catches.
AttemptRaises(c, e) ==
    /\ rpc[c] = "attempt"
    /\ Runnable(c)
    /\ e \in faults
    /\ Raises(e, retry_out_of_inventory)
    /\ Release(c)
    /\ Leave(c)
    /\ rpc' = [rpc EXCEPT ![c] = "raised"]
    /\ exc' = [exc EXCEPT ![c] = e]
    /\ UNCHANGED <<credentials, credential_n, faults, args, purev, gens, mainv, method, target, kwargs, pulled, nget>>

\* Seeded fault of AttemptRetries: the `with` inside the while loop, so that
\* the credential goes back to the queue before the sleep.
AttemptRetries_PutsBack(c, e) ==
    /\ rpc[c] = "attempt"
    /\ Runnable(c)
    /\ try_n[c] < MaxTry
    /\ e \in faults
    /\ ~Raises(e, retry_out_of_inventory)
    /\ q' = Append(q, cred[c])
    /\ nput' = [nput EXCEPT ![c] = @ + 1]
    /\ rpc' = [rpc EXCEPT ![c] = "sleep"]
    /\ exc' = [exc EXCEPT ![c] = e]
    /\ seconds' = [seconds EXCEPT ![c] = Seconds(e, retry_out_of_inventory, interval)]
    /\ UNCHANGED <<credentials, credential_n, faults, args, purev, gens, mainv, method, target, kwargs, pulled,
                   cred, try_n, nget>>

\* fn(...) raises e and the handler goes to time.sleep(seconds), line 177.
AttemptRetries(c, e) ==
    /\ rpc[c] = "attempt"
    /\ Runnable(c)
    /\ try_n[c] < MaxTry
    /\ e \in faults
    /\ ~Raises(e, retry_out_of_inventory)
    /\ rpc' = [rpc EXCEPT ![c] = "sleep"]
    /\ exc' = [exc EXCEPT ![c] = e]
    /\ seconds' = [seconds EXCEPT ![c] = Seconds(e, retry_out_of_inventory, interval)]
    /\ UNCHANGED <<pool, args, purev, gens, mainv, method, target, kwargs, pulled, cred, try_n, nget, nput>>

\* time.sleep returns: the next round of the while loop, lines 140-143.
Wake(c) ==
    /\ rpc[c] = "sleep"
    /\ Runnable(c)
    /\ rpc' = [rpc EXCEPT ![c] = "attempt"]
    /\ try_n' = [try_n EXCEPT ![c] = @ + 1]
    /\ seconds' = [seconds EXCEPT ![c] = interval]
    /\ exc' = [exc EXCEPT ![c] = NoExc]
    /\ UNCHANGED <<pool, args, purev, gens, mainv, method, target, kwargs, pulled, cred, nget, nput>>

\* ------------------------------------------------------------------ main()
\* main() calls retry() itself: the call runs inside main().
Call(c, m) ==
    /\ rpc' = [rpc EXCEPT ![c] = "spawned"]
    /\ method' = [method EXCEPT ![c] = m]

\* gevent.spawn(retry, api, m, ...) and g_list.append: the greenlet is
\* scheduled and starts when main() next blocks.
Spawn(m, t, kw, got) ==
    /\ nspawned' = nspawned + 1
    /\ rpc' = [rpc EXCEPT ![nspawned + 1] = "spawned"]
    /\ method' = [method EXCEPT ![nspawned + 1] = m]
    /\ target' = [target EXCEPT ![nspawned + 1] = t]
    /\ kwargs' = [kwargs EXCEPT ![nspawned + 1] = kw]
    /\ pulled' = [pulled EXCEPT ![nspawned + 1] = got]
    /\ g_list' = g_list \cup {nspawned + 1}

\* `list` and `board`: lines 193-204.
ReturnList ==
    /\ mpc = "start"
    /\ Branch = "list"
    /\ mpc' = "done"
    /\ UNCHANGED <<pool, args, purev, gens, items, i, g_list, nspawned, callv>>

\* The first call of main(): the listing of line 233, or the plain call of
\* line 296.
CallFirst ==
    /\ mpc = "start"
    /\ Branch \in {"select", "single"}
    /\ mpc' = "call"
    /\ Call(MainCall, METHOD)
    /\ UNCHANGED <<pool, args, purev, gens, items, i, g_list, nspawned, target, kwargs, pulled, cred,
                   try_n, exc, seconds, nget, nput>>

\* An exception of a call main() makes itself ends main().
CallRaised ==
    /\ \/ mpc = "call" /\ rpc[MainCall] = "raised"
       \/ mpc = "relisting" /\ rpc[RelistCall] = "raised"
    /\ mpc' = "crashed"
    /\ UNCHANGED <<pool, args, purev, gens, items, i, g_list, nspawned, callv>>

\* The plain call returned: lines 296-297.
SingleReturned ==
    /\ mpc = "call"
    /\ Branch = "single"
    /\ rpc[MainCall] = "returned"
    /\ mpc' = "done"
    /\ UNCHANGED <<pool, args, purev, gens, items, i, g_list, nspawned, callv>>

\* The listing returned n items: line 233, g_list = [], the loop begins.
Listed(n) ==
    /\ mpc = "call"
    /\ Branch = "select"
    /\ rpc[MainCall] = "returned"
    /\ n = Len(print_items(res))
    /\ items' = n
    /\ i' = 1
    /\ g_list' = {}
    /\ mpc' = "dispatch"
    /\ UNCHANGED <<pool, args, purev, gens, nspawned, callv>>

\* Lines 271-273, after the loop and its joins: the re-listing, or return.
PostDispatch ==
    IF cancel_indexes # {} \/ update_indexes # {}
    THEN /\ mpc' = "relisting"
         /\ Call(RelistCall, METHOD)
    ELSE /\ mpc' = "done"
         /\ UNCHANGED <<rpc, method>>

\* Lines 266-268 after a spawn: in serial mode main() blocks in joinall.
AfterSpawn == mpc' = IF serial THEN "joinwave" ELSE mpc

\* Line 236-243: the item at i is cancel-selected.
DispatchCancel ==
    /\ mpc = "dispatch"
    /\ i <= items
    /\ Choice(i) = "cancel"
    /\ Spawn(cancel_method, i, [NoKwargs EXCEPT !.id = Some(Item(i).id)], NoPull)
    /\ AfterSpawn
    /\ i' = IF serial THEN i ELSE i + 1
    /\ UNCHANGED <<pool, args, purev, gens, items, cred, try_n, exc, seconds, nget, nput>>

\* Lines 244-265: the item at i is update-selected and the three generators
\* each yield.
DispatchUpdate ==
    /\ mpc = "dispatch"
    /\ i <= items
    /\ Choice(i) = "update"
    /\ ~Exhausted(price_gen) /\ ~Exhausted(limit_gen) /\ ~Exhausted(stop_gen)
    /\ price_gen' = Advance(price_gen)
    /\ limit_gen' = Advance(limit_gen)
    /\ stop_gen' = Advance(stop_gen)
    /\ LET got == [price |-> Pull(price_gen), limit |-> Pull(limit_gen),
                   stop |-> Pull(stop_gen)]
       IN  Spawn(update_method, i, UpdateParams(Item(i), got), got)
    /\ AfterSpawn
    /\ i' = IF serial THEN i ELSE i + 1
    /\ UNCHANGED <<pool, args, purev, items, cred, try_n, exc, seconds, nget, nput>>

\* Seeded fault of DispatchExhausted: no `except StopIteration`, main() dies.
DispatchExhausted_Raises ==
    /\ mpc = "dispatch"
    /\ i <= items
    /\ Choice(i) = "update"
    /\ Exhausted(price_gen) \/ Exhausted(limit_gen) \/ Exhausted(stop_gen)
    /\ mpc' = "crashed"
    /\ UNCHANGED <<pool, args, purev, gens, items, i, g_list, nspawned, callv>>

\* Lines 245-251: one of the three next() calls raises StopIteration; the
\* generators before it have yielded. `break` leaves the loop past the
\* serial join, to lines 269-273.
DispatchExhausted ==
    /\ mpc = "dispatch"
    /\ i <= items
    /\ Choice(i) = "update"
    /\ Exhausted(price_gen) \/ Exhausted(limit_gen) \/ Exhausted(stop_gen)
    /\ price_gen' = IF Exhausted(price_gen) THEN price_gen ELSE Advance(price_gen)
    /\ limit_gen' = IF Exhausted(price_gen) \/ Exhausted(limit_gen)
                    THEN limit_gen ELSE Advance(limit_gen)
    /\ stop_gen' = stop_gen
    /\ IF serial
       THEN PostDispatch
       ELSE mpc' = "joinall" /\ UNCHANGED <<rpc, method>>
    /\ UNCHANGED <<pool, args, purev, items, i, g_list, nspawned, target, kwargs, pulled, cred, try_n,
                   exc, seconds, nget, nput>>

\* The item at i is in neither set; in serial mode joinall([]) returns at once.
DispatchSkip ==
    /\ mpc = "dispatch"
    /\ i <= items
    /\ Choice(i) = "none"
    /\ i' = i + 1
    /\ UNCHANGED <<pool, args, purev, gens, items, mpc, g_list, nspawned, callv>>

\* Seeded fault of DispatchEnd: the `if not serial: gevent.joinall(g_list)`
\* of lines 269-270 missing.
DispatchEnd_NoJoin ==
    /\ mpc = "dispatch"
    /\ i > items
    /\ PostDispatch
    /\ UNCHANGED <<pool, args, purev, gens, items, i, g_list, nspawned, target, kwargs, pulled, cred,
                   try_n, exc, seconds, nget, nput>>

\* The loop is over: lines 269-273.
DispatchEnd ==
    /\ mpc = "dispatch"
    /\ i > items
    /\ IF serial
       THEN PostDispatch
       ELSE mpc' = "joinall" /\ UNCHANGED <<rpc, method>>
    /\ UNCHANGED <<pool, args, purev, gens, items, i, g_list, nspawned, target, kwargs, pulled, cred,
                   try_n, exc, seconds, nget, nput>>

\* Seeded fault of Joined: joinall(g_list, raise_error=True) met with no
\* handler, a greenlet that died of an exception is never joined.
Joined_OnlyReturned == \A c \in g_list : rpc[c] = "returned"

\* Seeded fault of Joined: joinall returns without waiting.
Joined_NoWait == TRUE

\* gevent.joinall(g_list) returns when every greenlet of g_list is dead;
\* raise_error is False, so a greenlet's exception stays in the greenlet.
Joined == \A c \in g_list : Terminated(c)

\* Serial mode, lines 266-268 and 289-291: the wave is joined, g_list = [],
\* the loop goes on.
JoinWave ==
    /\ mpc = "joinwave"
    /\ Joined
    /\ g_list' = {}
    /\ i' = i + 1
    /\ mpc' = IF Branch = "select" THEN "dispatch" ELSE "sweep"
    /\ UNCHANGED <<pool, args, purev, gens, items, nspawned, callv>>

\* Parallel mode, lines 269-273 and 292-294.
JoinAll ==
    /\ mpc = "joinall"
    /\ Joined
    /\ IF Branch = "select"
       THEN PostDispatch
       ELSE mpc' = "done" /\ UNCHANGED <<rpc, method>>
    /\ UNCHANGED <<pool, args, purev, gens, items, i, g_list, nspawned, target, kwargs, pulled, cred,
                   try_n, exc, seconds, nget, nput>>

\* The re-listing returned: line 272, then return.
Relisted ==
    /\ mpc = "relisting"
    /\ rpc[RelistCall] = "returned"
    /\ mpc' = "done"
    /\ UNCHANGED <<pool, args, purev, gens, items, i, g_list, nspawned, callv>>

\* Lines 275-278: the raw price sweep begins.
BeginSweep ==
    /\ mpc = "start"
    /\ Branch = "sweep"
    /\ price_gen' = params_price
    /\ i' = 1
    /\ g_list' = {}
    /\ mpc' = "sweep"
    /\ UNCHANGED <<pool, args, purev, limit_gen, stop_gen, items, nspawned, callv>>

\* Lines 283-291: the generator yields the i-th price, one greenlet for it.
SweepNext ==
    /\ mpc = "sweep"
    /\ ~Exhausted(price_gen)
    /\ price_gen' = Advance(price_gen)
    /\ Spawn(METHOD, i,
             [NoKwargs EXCEPT !.price = Some(round_price("btc_jpy", Pull(price_gen)[1]))],
             NoPull)
    /\ AfterSpawn
    /\ i' = IF serial THEN i ELSE i + 1
    /\ UNCHANGED <<pool, args, purev, limit_gen, stop_gen, items, cred, try_n, exc,
                   seconds, nget, nput>>

\* The generator is exhausted: lines 292-294.
SweepEnd ==
    /\ mpc = "sweep"
    /\ Exhausted(price_gen)
    /\ mpc' = IF serial THEN "done" ELSE "joinall"
    /\ UNCHANGED <<pool, args, purev, gens, items, i, g_list, nspawned, callv>>

\* gevent raises LoopExit in main() when main() is blocked and nothing is
\* left that could wake it: every retry call that is alive waits on the
\* empty queue and none holds a credential.
Blocked ==
    /\ mpc \in {"call", "relisting", "joinwave", "joinall"}
    /\ \A c \in Calls : rpc[c] \in {"idle", "acquire", "returned", "raised"}
    /\ q = <<>>
    /\ \/ mpc = "call" /\ rpc[MainCall] = "acquire"
       \/ mpc = "relisting" /\ rpc[RelistCall] = "acquire"
       \/ mpc \in {"joinwave", "joinall"} /\ ~Joined

LoopExit ==
    /\ Blocked
    /\ mpc' = "crashed"
    /\ UNCHANGED <<pool, args, purev, gens, items, i, g_list, nspawned, callv>>

Next ==
    \/ ReturnList
    \/ CallFirst
    \/ CallRaised
    \/ SingleReturned
    \/ \E n \in 0..MaxItems : Listed(n)
    \/ DispatchCancel
    \/ DispatchUpdate
    \/ DispatchExhausted
    \/ DispatchSkip
    \/ DispatchEnd
    \/ JoinWave
    \/ JoinAll
    \/ Relisted
    \/ BeginSweep
    \/ SweepNext
    \/ SweepEnd
    \/ LoopExit
    \/ \E c \in Calls : Start(c)
    \/ \E c \in Calls : Acquire(c)
    \/ \E c \in Calls : AttemptReturns(c)
    \/ \E c \in Calls, e \in Exceptions : AttemptRaises(c, e)
    \/ \E c \in Calls, e \in Exceptions : AttemptRetries(c, e)
    \/ \E c \in Calls : Wake(c)

Spec == Init /\ [][Next]_vars
SpecDispatch == InitDispatch /\ [][Next]_vars
SpecSelect == InitSelect /\ [][Next]_vars

\* The runs of the pool under contention: no, one or all credentials; all items
\* cancel-selected, update-selected, both or none, --price absent or one
\* number; price sweeps of up to MaxSweep greenlets; against an exchange that
\* answers, fails fatally or fails with a proxy failure.
InitLive ==
    /\ faults = {ZaifApiError({"insufficient funds"}), ProxyError}
    /\ retry_out_of_inventory = FALSE
    /\ interval = DefaultInterval
    /\ credential_n = MaxCreds
    /\ credentials \in {[k \in 1..L |-> k] : L \in {0, 1, MaxCreds}}
    /\ cancel_indexes \in {{}, 1..MaxItems}
    /\ update_indexes \in {{}, 1..MaxItems}
    /\ argv \in {[price |-> e, limit |-> NoExpr, stop |-> NoExpr] :
                   e \in IF update_indexes = {} THEN {NoExpr} ELSE {NoExpr, SweepInf(100, 2, 1)}}
    /\ Built

\* The gevent hub runs a greenlet that can run, and an attempt ends: while
\* any step is possible, a step is taken. retry() makes at most MaxTry
\* attempts here, its last one returns or raises.
SpecLive == InitLive /\ [][Next]_vars /\ WF_vars(Next)

\* ================================================================= claims
\* N: the credentials put into the pool at construction (lines 81-82).
NCreds == Min(Len(credentials), credential_n)
Range(s) == {s[k] : k \in 1..Len(s)}
Holders == {c \in Calls : Holding(c)}
\* The calls past credential acquisition: attempting or in a backoff sleep.
Past == {c \in Calls : rpc[c] \in {"attempt", "sleep"}}
Waiting == {c \in Calls : rpc[c] \in {"spawned", "acquire"}}
Unfinished == {c \in Tasks : rpc[c] \in {"spawned", "acquire", "attempt", "sleep"}}
\* The exception an attempt of call c ends with in this step, if it ends
\* with one.
Fails(c) == rpc[c] = "attempt" /\ rpc'[c] \in {"sleep", "raised"}
IsApiError(e, class) == e.type = "ZaifApiError" /\ Classify(e.s) = class

\* C1: the credentials checked out plus the credentials in the queue are
\* always the N credentials of construction, each once; a call that has
\* ended, by return or by any exception, has put back once what it got, and
\* a call that has not ended has put back nothing.
C1_Conservation ==
    /\ Cardinality(Holders) + Len(q) = NCreds
    /\ Range(q) \cup {cred[c] : c \in Holders} = 1..NCreds
    /\ \A c \in Calls :
          /\ Terminated(c) => nget[c] = 1 /\ nput[c] = 1 /\ ~Holding(c)
          /\ ~Terminated(c) => nput[c] = 0 /\ nget[c] = (IF Holding(c) THEN 1 ELSE 0)

\* C1 happens: with two calls over, one by return and one by an exception,
\* every credential is back in the queue.
C1_Witness ==
    /\ NCreds >= 1
    /\ Len(q) = NCreds
    /\ \E a, b \in Calls : rpc[a] = "returned" /\ rpc[b] = "raised"

\* C2: at most N calls are past acquisition at once, and while N are, a call
\* still acquiring stays there and makes no attempt in any step.
C2_AtMostN ==
    /\ [](Cardinality(Past) <= NCreds)
    /\ [][\A c \in Waiting :
            Cardinality(Past) = NCreds =>
                /\ rpc'[c] \in {"spawned", "acquire"}
                /\ try_n'[c] = 0 /\ cred'[c] = 0]_vars

\* C2 happens: all N credentials are out and one more call is blocked.
C2_Witness ==
    /\ NCreds >= 1
    /\ Cardinality(Past) = NCreds
    /\ \E c \in Calls : rpc[c] = "acquire"

\* C3: no two calls hold the same credential, and no held credential is in
\* the queue.
C3_MutualExclusion ==
    /\ \A a, b \in Holders : a # b => cred[a] # cred[b]
    /\ \A c \in Holders : cred[c] \notin Range(q)

\* C3 happens: two greenlets hold a credential each, one of them asleep.
C3_Witness ==
    \E a, b \in Tasks :
        a # b /\ Holding(a) /\ Holding(b) /\ rpc[a] = "sleep" /\ rpc[b] = "attempt"

\* C4: a call past acquisition has got one credential and put none back; in
\* every step it keeps that credential, which stays out of the queue, or it
\* ends and puts that credential back; and it gets none after that.
C4_HeldThroughout ==
    /\ [](\A c \in Past : cred[c] # 0 /\ nget[c] = 1 /\ nput[c] = 0 /\ try_n[c] >= 1)
    /\ [][\A c \in Past :
            IF rpc'[c] \in {"attempt", "sleep"}
            THEN cred'[c] = cred[c] /\ cred[c] \notin Range(q')
            ELSE /\ Terminated(c)'
                 /\ q' = Append(q, cred[c])
                 /\ nget'[c] = 1 /\ nput'[c] = 1]_vars
    /\ [][\A c \in Calls : Terminated(c) => nget'[c] = nget[c] /\ nput'[c] = nput[c]]_vars

\* C4 happens: a call is in its second attempt with the credential it got.
C4_Witness ==
    \E c \in Calls :
        rpc[c] = "attempt" /\ try_n[c] = 2 /\ Holding(c) /\ nget[c] = 1 /\ nput[c] = 0

\* C5: an attempt that fails with a message of the fatal class ends the call
\* in that step: the error is raised, nothing is slept, the credential goes
\* back; and a call that has raised attempts nothing more.
C5_FatalPropagates ==
    [][\A c \in Calls :
         /\ Fails(c) /\ IsApiError(exc'[c], "fatal") =>
               /\ rpc'[c] = "raised"
               /\ q' = Append(q, cred[c])
               /\ cred'[c] = 0 /\ nput'[c] = 1
         /\ rpc[c] = "raised" =>
               rpc'[c] = "raised" /\ exc'[c] = exc[c] /\ try_n'[c] = try_n[c]]_vars

\* C5 happens: a call has raised a fatal error and its credential is back.
C5_Witness ==
    \E c \in Calls :
        /\ rpc[c] = "raised" /\ IsApiError(exc[c], "fatal")
        /\ ~Holding(c) /\ Len(q) = NCreds /\ NCreds >= 1

\* C6: a call whose attempt failed with a rate-restriction message sleeps
\* 10 x interval, one whose attempt failed with an unrecognised message
\* sleeps interval; neither error is ever raised; and a sleep ends in the
\* next attempt.
C6_Backoff ==
    /\ [](\A c \in Calls :
            /\ IsApiError(exc[c], "rate") =>
                  rpc[c] = "sleep" /\ seconds[c] = 10 * interval
            /\ IsApiError(exc[c], "other") =>
                  rpc[c] = "sleep" /\ seconds[c] = interval)
    /\ [][\A c \in Calls :
            rpc[c] = "sleep" /\ rpc'[c] # "sleep" =>
                rpc'[c] = "attempt" /\ try_n'[c] = try_n[c] + 1]_vars

\* C6 happens: a call sleeps 30 after a rate restriction under the default
\* interval of 3.
C6_Witness ==
    \E c \in Calls :
        /\ rpc[c] = "sleep" /\ IsApiError(exc[c], "rate")
        /\ interval = DefaultInterval /\ seconds[c] = 30

\* C7: after an inventory message the call sleeps 10 x interval, holding its
\* credential, when the flag is set, and has raised the error, its
\* credential back, when it is not.
C7_Inventory ==
    \A c \in Calls :
        IsApiError(exc[c], "inventory") =>
            IF retry_out_of_inventory
            THEN rpc[c] = "sleep" /\ seconds[c] = 10 * interval /\ Holding(c)
            ELSE rpc[c] = "raised" /\ ~Holding(c) /\ nput[c] = 1 /\ seconds[c] = 0

\* C7 happens: the flag is not set and a call has raised the inventory error.
C7_Witness ==
    /\ ~retry_out_of_inventory
    /\ \E c \in Calls : rpc[c] = "raised" /\ IsApiError(exc[c], "inventory")

\* C8 as claimed: after any transport failure, proxy or connectivity, the
\* call sleeps interval, holding its credential, and the failure is never
\* propagated.
C8_TransportNeverRaised ==
    \A c \in Calls :
        exc[c].type \in {"ProxyError", "ConnectionError"} =>
            rpc[c] = "sleep" /\ seconds[c] = interval /\ Holding(c)

\* C8 amended: after a proxy failure the call sleeps interval, holding its
\* credential; a connectivity failure that is no ProxyError is raised, the
\* credential back.
C8_ProxyRetried ==
    \A c \in Calls :
        /\ exc[c].type = "ProxyError" =>
              rpc[c] = "sleep" /\ seconds[c] = interval /\ Holding(c)
        /\ exc[c].type = "ConnectionError" =>
              rpc[c] = "raised" /\ ~Holding(c) /\ nput[c] = 1

\* C8 amended happens: a call sleeps after a proxy failure.
C8_Witness ==
    \E c \in Calls : rpc[c] = "sleep" /\ exc[c].type = "ProxyError" /\ Holding(c)

\* C9: in serial mode every greenlet but the last spawned is dead, in the
\* index-selection dispatch and in the price sweep alike.
C9_SerialOrder ==
    serial =>
        /\ \A k \in 1..nspawned : k < nspawned => Terminated(k)
        /\ Cardinality(Unfinished) <= 1

\* C9 happens: in serial mode the second greenlet runs after the first died
\* of a fatal error.
C9_Witness ==
    /\ serial /\ Branch = "select"
    /\ nspawned = 2
    /\ rpc[1] = "raised" /\ rpc[2] = "attempt"

\* C10: the re-listing call exists only with a selection, only once, and only
\* when every greenlet spawned is dead; and once the dispatch is over it
\* exists if there is a selection.
Selected == cancel_indexes # {} \/ update_indexes # {}
C10_JoinBeforeRelist ==
    /\ rpc[RelistCall] # "idle" =>
          /\ Selected
          /\ \A k \in 1..nspawned : Terminated(k)
          /\ Unfinished = {}
          /\ nget[RelistCall] <= 1
    /\ Branch = "select" /\ mpc \in {"relisting", "done"} =>
          (rpc[RelistCall] # "idle" <=> Selected)
    /\ Branch = "select" /\ mpc = "done" /\ Selected =>
          rpc[RelistCall] = "returned" /\ nget[RelistCall] = 1

\* C10 happens: in parallel mode two greenlets are dead and the re-listing is
\* in its attempt.
C10_Witness ==
    /\ ~serial /\ Branch = "select"
    /\ nspawned = 2 /\ Terminated(1) /\ Terminated(2)
    /\ rpc[RelistCall] = "attempt"

\* C14: of start:stop:step,count gen_float yields at most count values, the
\* k-th is start + step * (k - 1), none of them reaches or passes stop in the
\* direction of the sweep (upward when start <= stop, downward otherwise),
\* and the sequence ends only at count values or at the first value that
\* reaches stop.
C14_Sweep ==
    LET e == expression
        Reaches(v) == IF e.start <= e.stop THEN v >= e.stop ELSE v <= e.stop
    IN  e.kind = "range" /\ ~e.inf /\ e.n # NoCount /\ fpc # "gen_float" =>
          /\ Len(yielded) <= e.n
          /\ \A k \in 1..Len(yielded) :
                yielded[k] = e.start + e.step * (k - 1) /\ ~Reaches(yielded[k])
          /\ fpc = "StopIteration" =>
                \/ Len(yielded) = e.n
                \/ Reaches(e.start + e.step * Len(yielded))

\* C14 happens: 0:2:1,3 has yielded 0 and 1 and is exhausted, short of its
\* count of 3.
C14_Witness ==
    /\ expression = Sweep(0, 2, 1, 3)
    /\ fpc = "StopIteration"
    /\ yielded = <<0, 1>>

\* C15: of a body with no ':' gen_float yields that number, once, and the
\* next request finds the generator exhausted, whatever count is given.
C15_Bare ==
    expression.kind = "bare" /\ fpc # "gen_float" =>
      /\ yielded \in {<<>>, <<expression.start>>}
      /\ yielded = <<>> => fpc = "next" /\ ~Exhausted(price_gen)
      /\ yielded # <<>> /\ fpc = "next" => Exhausted(price_gen)

\* C15 happens: `3,2` has yielded 3 and the second request raised
\* StopIteration.
C15_Witness ==
    /\ expression = Bare(3, 2)
    /\ fpc = "StopIteration"
    /\ yielded = <<3>>

\* C16: a number is in the list parse_indexes returns exactly when it is a
\* single token of the string or lies in lo..hi of a range token.
C16_Indexes ==
    fpc = "returned" =>
      \A j \in (0 - 1)..(MaxIndex + 1) :
        j \in Range(indexes) <=>
          \E k \in 1..Len(selection) :
            IF selection[k].dash
            THEN selection[k].lo <= j /\ j <= selection[k].hi
            ELSE j = selection[k].lo

\* C16 happens: `1,2-3` has been parsed to 1, 2, 3.
C16_Witness ==
    /\ fpc = "returned"
    /\ selection = <<Single(1), Dash(2, 3)>>
    /\ indexes = <<1, 2, 3>>

\* The dispatch loop was left by the `break` of line 251, at item i.
Broke ==
    /\ Branch = "select"
    /\ mpc \in {"joinall", "relisting", "done", "crashed"}
    /\ 1 <= i /\ i <= items
\* The positions the dispatch loop has dealt with.
Handled ==
    IF Branch # "select" \/ i = 0 THEN {}
    ELSE IF mpc = "joinwave" THEN 1..i
    ELSE 1..(i - 1)
TasksAt(pos) == {k \in 1..nspawned : target[k] = pos}
UpdateTasks == {k \in 1..nspawned : method[k] = update_method}
\* The sweeps as --price, --limit and --stop give them.
Sweeps == <<gen_float(argv.price), gen_float(argv.limit), gen_float(argv.stop)>>
Nth(g, k) == IF g.none THEN None ELSE Some(g.vals[k])
Drop(g, n) == IF g.none THEN g ELSE GenOf(SubSeq(g.vals, n + 1, Len(g.vals)))
Filled(x) == x.amount_done = x.amount

C17_Selection ==
    Branch = "select" /\ i > 0 =>
      /\ \A pos \in 1..items :
            IF pos \notin Handled THEN TasksAt(pos) = {}
            ELSE IF pos \in cancel_indexes
            THEN \E k \in 1..nspawned :
                    TasksAt(pos) = {k} /\ method[k] = cancel_method
            ELSE IF pos \in update_indexes
            THEN \E k \in 1..nspawned :
                    TasksAt(pos) = {k} /\ method[k] = update_method
            ELSE TasksAt(pos) = {}
      /\ LET listing == print_items(res)
         IN  \A k \in 1..nspawned :
               /\ target[k] \in 1..items
               /\ kwargs[k].id = Some(listing[target[k]].id)
               /\ \A j \in 1..(k - 1) : target[j] < target[k]

\* C17 happens: the first item (id 10) is in both selections and the second
\* (id 9) is update-selected; a cancel of 10 and an update of 9 have run.
C17_Witness ==
    /\ Branch = "select" /\ mpc = "done"
    /\ cancel_indexes = {1} /\ update_indexes = {1, 2}
    /\ nspawned = 2
    /\ method[1] = cancel_method /\ kwargs[1].id = Some(10)
    /\ method[2] = update_method /\ kwargs[2].id = Some(9)

\* C18: an update-selected item that is fully filled has its update, and
\* the update has no price; the update of an item not fully filled has a
\* price exactly when the value pulled for it is a number other than 0; any
\* update has a limit and a stop exactly when the limit and the stop pulled
\* are numbers other than 0.
C18_FilledNoPrice ==
    Branch = "select" /\ nspawned > 0 =>
      /\ \A k \in UpdateTasks :
            LET x == print_items(res)[target[k]]
                NonZero(o) == o # None /\ o[1] # 0
            IN  /\ Filled(x) => kwargs[k].price = None
                /\ ~Filled(x) => (kwargs[k].price # None <=> NonZero(pulled[k].price))
                /\ kwargs[k].limit # None <=> NonZero(pulled[k].limit)
                /\ kwargs[k].stop # None <=> NonZero(pulled[k].stop)
      /\ \A pos \in Handled \cap (update_indexes \ cancel_indexes) :
            pos <= items /\ Filled(print_items(res)[pos]) =>
               \E k \in UpdateTasks : target[k] = pos

\* C18 happens: the first item is fully filled; its update pulled a price,
\* a limit of 0 and no stop, and has no price, no limit and no stop; the
\* second item is open and its update has a price and a limit.
C18_Witness ==
    /\ Branch = "select"
    /\ nspawned = 2 /\ UpdateTasks = {1, 2}
    /\ Filled(print_items(res)[1]) /\ ~Filled(print_items(res)[2])
    /\ pulled[1] = [price |-> Some(150007), limit |-> Some(0), stop |-> None]
    /\ kwargs[1].price = None /\ kwargs[1].limit = None /\ kwargs[1].stop = None
    /\ kwargs[2].price # None /\ kwargs[2].limit # None

\* C19: the k-th update dispatched was given the k-th value of the price
\* sweep, of the limit sweep and of the stop sweep, fully filled or not; a
\* cancel was given none; and while no sweep has run out, each generator has
\* yielded as many values as updates were dispatched.
C19_ByPosition ==
    Branch = "select" =>
      LET sweeps == Sweeps
          updates == Cardinality(UpdateTasks)
      IN  /\ \A k \in UpdateTasks :
                LET n == Cardinality({j \in UpdateTasks : j <= k})
                IN  pulled[k] = [price |-> Nth(sweeps[1], n), limit |-> Nth(sweeps[2], n),
                                 stop |-> Nth(sweeps[3], n)]
          /\ \A k \in 1..nspawned : k \notin UpdateTasks => pulled[k] = NoPull
          /\ ~Broke =>
                /\ price_gen = Drop(sweeps[1], updates)
                /\ limit_gen = Drop(sweeps[2], updates)
                /\ stop_gen = Drop(sweeps[3], updates)

\* C19 happens: the first item is cancelled and pulls nothing, the second
\* is fully filled and pulls the first value of the price sweep, whose next
\* value is the second.
C19_Witness ==
    /\ Branch = "select"
    /\ cancel_indexes = {1} /\ update_indexes = {1, 2}
    /\ nspawned = 2 /\ method[2] = update_method
    /\ Filled(print_items(res)[2])
    /\ argv.price = Sweep(150007, 950007, 100000, NoCount)
    /\ pulled[2].price = Some(150007)
    /\ price_gen.vals[1] = 250007

\* main() is over, by return or by an exception of a call of its own, every
\* greenlet is dead, and after a dispatch the re-listing is over.
Over ==
    /\ mpc \in {"done", "crashed"}
    /\ \A k \in 1..nspawned : Terminated(k)
    /\ Branch = "select" /\ Selected /\ rpc[MainCall] = "returned" =>
          Terminated(RelistCall)

\* C12: a greenlet that dies of a fatal error changes no other call and not
\* main(); main() dies only of a call of its own (or of an empty pool); and with a credential in the pool, once a greenlet has died of an
\* error the run goes on to its end: every greenlet dead, every selected item
\* dealt with unless a sweep ran out, the re-listing over.
C12_Isolation ==
    /\ [](mpc = "crashed" =>
            \/ rpc[MainCall] = "raised"
            \/ rpc[RelistCall] = "raised"
            \/ NCreds = 0)
    /\ [][\A c \in Tasks :
            rpc[c] # "raised" /\ rpc'[c] = "raised" =>
               /\ mpc' = mpc
               /\ g_list' = g_list
               /\ \A d \in Calls \ {c} : rpc'[d] = rpc[d]]_vars
    /\ \A c \in Tasks :
          (NCreds >= 1 /\ rpc[c] = "raised") ~>
             /\ Over
             /\ rpc[c] = "raised"
             /\ Branch = "select" /\ ~Broke =>
                   \A pos \in 1..items :
                      pos \in cancel_indexes \cup update_indexes => TasksAt(pos) # {}

\* C12 happens: in parallel mode the first greenlet died of a fatal error,
\* the second returned, and the re-listing returned.
C12_Witness ==
    /\ ~serial /\ Branch = "select" /\ mpc = "done"
    /\ nspawned = 2
    /\ rpc[1] = "raised" /\ rpc[2] = "returned"
    /\ rpc[RelistCall] = "returned"

\* C13: with no credential in the pool no retry call is begun. (Startup
\* does not fail on an empty list or on --credential-n 0: the pool is built
\* empty and the first call blocks in q.get().)
C13_NoCallOnEmptyPool ==
    NCreds = 0 => \A c \in Calls : rpc[c] = "idle"

\* C20: with a credential in the pool, a call blocked on the empty queue
\* gets a credential; and the run comes to its end, every greenlet dead, the
\* re-listing over, all N credentials in the queue.
C20_NoDeadlock ==
    /\ \A c \in Calls : (NCreds >= 1 /\ rpc[c] = "acquire") ~> Holding(c)
    /\ NCreds >= 1 => <>[](Over /\ Len(q) = NCreds /\ Holders = {})

\* C20 happens: one credential, two greenlets in parallel; the first is in
\* its attempt, the second blocked on the empty queue.
C20_Witness ==
    /\ NCreds = 1 /\ mpc = "joinall"
    /\ nspawned = 2
    /\ rpc[1] = "attempt" /\ rpc[2] = "acquire"
    /\ q = <<>>

====
